---- MODULE Spec2Model ----
(***************************************************************************)
(* WebGLContextManager (app/lib/webgl-context-manager): a process-wide     *)
(* registry that bounds the number of live WebGL context owners, evicting  *)
(* the lowest-priority / oldest owner when a register call finds the       *)
(* registry at capacity.                                                   *)
(*                                                                         *)
(* activeContexts is a JavaScript Map: it iterates in insertion order,     *)
(* set() on a present key replaces the value in place, delete() removes    *)
(* the key.  It is modelled as a sequence of owner records without         *)
(* duplicate ids.                                                          *)
(*                                                                         *)
(* PanoramaViewer (app/components/PanoramaViewer): the React component     *)
(* that owns one panorama viewer, registers it with the registry when the  *)
(* viewer is constructed and unregisters it in the cleanup of its          *)
(* initialization effect.                                                  *)
(*                                                                         *)
(* LoginPage, InstancesLayout and Home: the client-side login gate around   *)
(* the local-storage flag 'sales_showcase_auth'.                           *)
(*                                                                         *)
(* InstancesPage: the instance browser; its filter effect computes         *)
(* filteredInstances from instances and the filters.                       *)
(***************************************************************************)
EXTENDS Integers, Sequences, FiniteSets, TLC

\* ---------------------------------------------------------------- bounds

\* Capacity of the registry.  The source fixes it at 12; the model runs the
\* same code with a scaled-down capacity, so that the registry fills and
\* overflows within a few register calls.
MAX_CONTEXTS == 2

\* Number of distinct owner ids the callers use.
NumIds == 3

\* Number of register calls in one behaviour.
MaxRegs == 3

\* How often one cleanup closure may throw in one behaviour.
MaxThrows == 1

\* The latest clock reading in the registries removeLowestPriority is
\* applied to as a function.
MaxClock == 1

\* Longest search text typed into the search box.
MaxQuery == 2

\* Longest list of instances metadata.json holds.
MaxInstances == 2

\* ------------------------------------------------------------ value sets

\* The ids callers pass to register: any string, the empty string included.
IdNames == <<"", "a", "b", "c", "d", "e", "f", "g">>

Ids == {IdNames[i] : i \in 1..NumIds}

\* The priorities the callers register with: preview panels pass 0 (also
\* the default of register's `priority` parameter), viewers pass 1 by default.
PreviewPriority == 0

ViewerPriority == 1

Priorities == PreviewPriority..ViewerPriority

\* The closure passed as `cleanup` by the n-th register call.
Cleanups == 1..MaxRegs

\* `let targetId: string | null = null`
Null == "<null>"

\* `let lowestPriority = Infinity; let oldestTime = Infinity`: a number that
\* is either finite or +Infinity.
Infinity == [fin |-> FALSE, val |-> 0]

Finite(n) == [fin |-> TRUE, val |-> n]

\* x < y and x === y for a finite integer x and a possibly infinite y.
NumLt(x, y) == (~y.fin) \/ x < y.val

NumEq(x, y) == y.fin /\ x = y.val

\* JavaScript truthiness of a `string | null`: null and "" are falsy.
Truthy(s) == s # Null /\ s # ""

\* interface ContextOwner
ContextOwner(id, priority, cleanup, createdAt) ==
  [id |-> id, priority |-> priority, cleanup |-> cleanup, createdAt |-> createdAt]

\* ------------------------------------------------------- Map<string, ...>

MapSize(m) == Len(m)

MapHas(m, id) == \E i \in 1..Len(m) : m[i].id = id

MapIndex(m, id) == CHOOSE i \in 1..Len(m) : m[i].id = id

MapGet(m, id) == m[MapIndex(m, id)]

\* Map.prototype.set: a present key keeps its position, a new key is appended.
MapSet(m, id, owner) ==
  IF MapHas(m, id)
    THEN [m EXCEPT ![MapIndex(m, id)] = owner]
    ELSE Append(m, owner)

\* Map.prototype.delete
MapDelete(m, id) ==
  IF MapHas(m, id)
    THEN LET k == MapIndex(m, id)
         IN  SubSeq(m, 1, k - 1) \o SubSeq(m, k + 1, Len(m))
    ELSE m

MapKeys(m) == {m[i].id : i \in 1..Len(m)}

MapValues(m) == {m[i] : i \in 1..Len(m)}

\* ------------------------------------------------------------ operations
\* Each operation yields the registry after the call, the owners whose
\* cleanup action it invoked (in order), and whether it ended by an uncaught
\* error of a cleanup action.  `thr` tells whether the cleanup action that
\* the call invokes throws.

Outcome(reg, invoked, threw) == [reg |-> reg, invoked |-> invoked, threw |-> threw]

\* unregister that invokes the cleanup action and forgets to delete the entry.
UnregisterOp_NoDelete(m, id, thr) ==
  IF MapHas(m, id)
    THEN Outcome(m, <<MapGet(m, id)>>, thr)
    ELSE Outcome(m, <<>>, FALSE)

\* unregister that invokes the cleanup action a second time after deleting
\* the entry.
UnregisterOp_Twice(m, id, thr) ==
  IF MapHas(m, id)
    THEN IF thr
           THEN Outcome(m, <<MapGet(m, id)>>, TRUE)
           ELSE Outcome(MapDelete(m, id), <<MapGet(m, id), MapGet(m, id)>>, FALSE)
    ELSE Outcome(m, <<>>, FALSE)

\* unregister that wraps the cleanup action in try/catch: the error is
\* swallowed and the entry deleted.
UnregisterOp_Catch(m, id, thr) ==
  IF MapHas(m, id)
    THEN Outcome(MapDelete(m, id), <<MapGet(m, id)>>, FALSE)
    ELSE Outcome(m, <<>>, FALSE)

\* unregister that deletes the entry first and invokes the cleanup action
\* afterwards: when the cleanup throws, the entry is already gone.
UnregisterOp_DeleteFirst(m, id, thr) ==
  IF MapHas(m, id)
    THEN Outcome(MapDelete(m, id), <<MapGet(m, id)>>, thr)
    ELSE Outcome(m, <<>>, FALSE)

\* unregister(id)
UnregisterOp(m, id, thr) ==
  IF MapHas(m, id)
    THEN IF thr
           THEN Outcome(m, <<MapGet(m, id)>>, TRUE)
           ELSE Outcome(MapDelete(m, id), <<MapGet(m, id)>>, FALSE)
    ELSE Outcome(m, <<>>, FALSE)

\* The scan with the priority comparison turned round: it selects the owner
\* of the highest priority.
RECURSIVE ScanLowest_Highest(_, _)
ScanLowest_Highest(m, n) ==
  IF n = 0
    THEN [lowestPriority |-> Infinity, oldestTime |-> Infinity, targetId |-> Null]
    ELSE LET acc   == ScanLowest_Highest(m, n - 1)
             owner == m[n]
         IN  IF (~acc.lowestPriority.fin)
                \/ owner.priority > acc.lowestPriority.val
                \/ (NumEq(owner.priority, acc.lowestPriority)
                    /\ NumLt(owner.createdAt, acc.oldestTime))
               THEN [lowestPriority |-> Finite(owner.priority),
                     oldestTime     |-> Finite(owner.createdAt),
                     targetId       |-> owner.id]
               ELSE acc

\* The scan with the tie-break turned round: among the owners of the lowest
\* priority it selects the newest.
RECURSIVE ScanLowest_Newest(_, _)
ScanLowest_Newest(m, n) ==
  IF n = 0
    THEN [lowestPriority |-> Infinity, oldestTime |-> Infinity, targetId |-> Null]
    ELSE LET acc   == ScanLowest_Newest(m, n - 1)
             owner == m[n]
         IN  IF NumLt(owner.priority, acc.lowestPriority)
                \/ (NumEq(owner.priority, acc.lowestPriority)
                    /\ ~NumLt(owner.createdAt, acc.oldestTime))
               THEN [lowestPriority |-> Finite(owner.priority),
                     oldestTime     |-> Finite(owner.createdAt),
                     targetId       |-> owner.id]
               ELSE acc

\* The loop of removeLowestPriority over the first n entries: the values of
\* lowestPriority, oldestTime and targetId after n iterations.
RECURSIVE ScanLowest(_, _)
ScanLowest(m, n) ==
  IF n = 0
    THEN [lowestPriority |-> Infinity, oldestTime |-> Infinity, targetId |-> Null]
    ELSE LET acc   == ScanLowest(m, n - 1)
             owner == m[n]
         IN  IF NumLt(owner.priority, acc.lowestPriority)
                \/ (NumEq(owner.priority, acc.lowestPriority)
                    /\ NumLt(owner.createdAt, acc.oldestTime))
               THEN [lowestPriority |-> Finite(owner.priority),
                     oldestTime     |-> Finite(owner.createdAt),
                     targetId       |-> owner.id]
               ELSE acc

\* removeLowestPriority that treats an empty registry as an error.
RemoveLowestPriority_Strict(m, thr) ==
  IF MapSize(m) = 0
    THEN Outcome(m, <<>>, TRUE)
    ELSE LET targetId == ScanLowest(m, Len(m)).targetId
         IN  IF Truthy(targetId)
               THEN UnregisterOp(m, targetId, thr)
               ELSE Outcome(m, <<>>, FALSE)

\* removeLowestPriority()
RemoveLowestPriority(m, thr) ==
  IF MapSize(m) = 0
    THEN Outcome(m, <<>>, FALSE)
    ELSE LET targetId == ScanLowest(m, Len(m)).targetId
         IN  IF Truthy(targetId)
               THEN UnregisterOp(m, targetId, thr)
               ELSE Outcome(m, <<>>, FALSE)

\* register that inserts the incoming owner in a `finally`: it is inserted
\* although the eviction has thrown.
RegisterOp_InsertAnyway(m, id, cleanup, priority, t, thr) ==
  LET ev == IF MapSize(m) >= MAX_CONTEXTS
              THEN RemoveLowestPriority(m, thr)
              ELSE Outcome(m, <<>>, FALSE)
  IN  Outcome(MapSet(ev.reg, id, ContextOwner(id, priority, cleanup, t)),
              ev.invoked, ev.threw)

\* register that turns the incoming owner away when the registry is at
\* capacity and every registered owner has a higher priority.
RegisterOp_RejectLower(m, id, cleanup, priority, t, thr) ==
  IF MapSize(m) >= MAX_CONTEXTS /\ \A i \in 1..Len(m) : priority < m[i].priority
    THEN Outcome(m, <<>>, FALSE)
    ELSE LET ev == IF MapSize(m) >= MAX_CONTEXTS
                     THEN RemoveLowestPriority(m, thr)
                     ELSE Outcome(m, <<>>, FALSE)
         IN  IF ev.threw
               THEN ev
               ELSE Outcome(MapSet(ev.reg, id, ContextOwner(id, priority, cleanup, t)),
                            ev.invoked, FALSE)

\* register(id, cleanup, priority) at Date.now() = t
RegisterOp(m, id, cleanup, priority, t, thr) ==
  LET ev == IF MapSize(m) >= MAX_CONTEXTS
              THEN RemoveLowestPriority(m, thr)
              ELSE Outcome(m, <<>>, FALSE)
  IN  IF ev.threw
        THEN ev
        ELSE Outcome(MapSet(ev.reg, id, ContextOwner(id, priority, cleanup, t)),
                     ev.invoked, FALSE)

\* updatePriority that writes the entry anew with Map.set, and so creates an
\* entry for an id that is not registered.
UpdatePriorityOp_Upsert(m, id, priority) ==
  IF MapHas(m, id)
    THEN Outcome([m EXCEPT ![MapIndex(m, id)].priority = priority], <<>>, FALSE)
    ELSE Outcome(MapSet(m, id, ContextOwner(id, priority, 0, 0)), <<>>, FALSE)

\* updatePriority(id, priority)
UpdatePriorityOp(m, id, priority) ==
  IF MapHas(m, id)
    THEN Outcome([m EXCEPT ![MapIndex(m, id)].priority = priority], <<>>, FALSE)
    ELSE Outcome(m, <<>>, FALSE)

\* cleanup() that invokes the cleanup actions and forgets to clear the Map.
CleanupOp_NoClear(m, k) ==
  IF k = 0
    THEN Outcome(m, m, FALSE)
    ELSE Outcome(m, SubSeq(m, 1, k), TRUE)

\* cleanup(): k = 0 when every cleanup action returns, otherwise the position
\* (in iteration order) of the first cleanup action that throws.
CleanupOp(m, k) ==
  IF k = 0
    THEN Outcome(<<>>, m, FALSE)
    ELSE Outcome(m, SubSeq(m, 1, k), TRUE)

\* getContextCount()
getContextCount(m) == MapSize(m)

\* isNearLimit with a strict comparison: a registry of exactly
\* MAX_CONTEXTS - 2 owners is not reported as near the limit.
isNearLimit_Strict(m) == MapSize(m) > MAX_CONTEXTS - 2

\* isNearLimit()
isNearLimit(m) == MapSize(m) >= MAX_CONTEXTS - 2

\* A module that never attaches the beforeunload listener: the signal leaves
\* the registry as it is.
BeforeUnloadHandler_Detached(m, k) == Outcome(m, <<>>, FALSE)

\* The listener the module attaches to window 'beforeunload': it calls
\* webglContextManager.cleanup().  k is as in CleanupOp.
BeforeUnloadHandler(m, k) == CleanupOp(m, k)

\* ----------------------------------------------------------------- state

VARIABLES
  activeContexts,  \* the registry, in insertion order
  now,             \* the latest Date.now() reading
  regs,            \* number of register calls made so far
  calls,           \* calls[c]: how often cleanup closure c has been invoked
  last,            \* the call made last: the operation, whether its id was
                   \* registered, how many cleanup actions it invoked, the
                   \* owners it evicted (a register call), and whether it
                   \* ended by an error
  viewers,         \* the PanoramaViewer component instances, by viewer id
  browser,         \* the document the browser shows: its location, the
                   \* local-storage flag, and the state of the page component
                   \* of the login gate mounted in it
  page             \* the state of InstancesPage

vars == <<activeContexts, now, regs, calls, last, viewers, browser, page>>

\* The viewer ids of the component instances on the page: the viewer of the
\* preview panel and one other viewer.  viewerIdRef holds
\* `panorama-<time>-<random>`, fixed at the first render and never empty.
ViewerIds == {"a", "b"}

\* A component instance before it is mounted.
\*   container         "new", "attached" (containerRef.current is set) or
\*                     "removed" (the component is unmounted)
\*   cleanupInstalled  the last run of the initialization effect returned its
\*                     cleanup function
\*   isMounted         the variable of that name of the effect run that
\*                     started the initialization
\*   isInitializingRef, viewerRef (TRUE: holds a viewer), loadingTimeout
\*                     (TRUE: the 10-second timer is pending)
\*   phase             how far the initialization has come
\*   registered        the component has called register and has not called
\*                     unregister since
\*   torn              the component has been torn down (effect cleanup on
\*                     re-run, or unmount) since it last called register
\*   destroys          how often destroy() has been invoked on the viewer
\*                     instance the component constructed last
\*   alive             how many viewer instances the component has
\*                     constructed and not destroyed
NewComponent ==
  [container |-> "new", cleanupInstalled |-> FALSE, isMounted |-> FALSE,
   isInitializingRef |-> FALSE, viewerRef |-> FALSE, loadingTimeout |-> FALSE,
   phase |-> "idle", registered |-> FALSE, torn |-> FALSE,
   destroys |-> 0, alive |-> 0]

\* A document the browser has just loaded at `pathname` (a sequence of path
\* segments) with page component `component`: the useState initial values
\* of LoginPage and InstancesLayout.
\*   window     FALSE while the page is rendered on the server (the static
\*              export): there is no window, no effect runs, no event arrives
\*   flag       localStorage.getItem('sales_showcase_auth')
\*   effectRan  the mount effect of the component has run
\*   submitted  how the last submission of the login form ended
\*   redirectedBy  the component whose location.replace call has loaded the
\*              document ("none": the visitor has opened it)
Document(window, flag, pathname, component) ==
  [window |-> window, flag |-> flag, pathname |-> pathname,
   component |-> component, effectRan |-> FALSE,
   password |-> "", error |-> "", loading |-> FALSE,
   authenticated |-> FALSE, submitted |-> "none", redirectedBy |-> "none"]

NewBrowser == Document(TRUE, Null, <<>>, "Home")

\* InstancesPage at its first render: the useState initial values.  A string
\* the page searches in is a sequence of characters; `stale` says that a
\* dependency of the filter effect has changed since the effect last ran.
All == <<"a", "l", "l">>

NewPage ==
  [instances |-> <<>>, filteredInstances |-> <<>>,
   searchQuery |-> <<>>, debouncedSearchQuery |-> <<>>,
   typeFilter |-> "all", clientFilter |-> All,
   includedFeatures |-> {}, excludedFeatures |-> {},
   stale |-> TRUE]

NoCall == [op |-> "none", present |-> FALSE, n |-> 0, evicted |-> <<>>,
           threw |-> FALSE]

Init ==
  /\ activeContexts = <<>>
  /\ now = 0
  /\ regs = 0
  /\ calls = [c \in Cleanups |-> 0]
  /\ last = NoCall
  /\ viewers = [v \in ViewerIds |-> NewComponent]
  /\ browser = NewBrowser
  /\ page = NewPage

\* The invocation counts after the cleanup actions of `invoked` have run.
Count(invoked) ==
  [c \in Cleanups |->
     calls[c] + Cardinality({i \in 1..Len(invoked) : invoked[i].cleanup = c})]

Returned(op, id, out) ==
  /\ activeContexts' = out.reg
  /\ calls' = Count(out.invoked)
  /\ last' = [op |-> op, present |-> MapHas(activeContexts, id),
              n |-> Len(out.invoked),
              evicted |-> IF op = "register" THEN out.invoked ELSE <<>>,
              threw |-> out.threw]

\* register reads Date.now() once: t is that reading.  The clock does not run
\* backwards, and two calls within the same millisecond read the same value.
Register(id, priority, t, thr) ==
  /\ regs < MaxRegs
  /\ regs' = regs + 1
  /\ now' = t
  /\ Returned("register", id,
              RegisterOp(activeContexts, id, regs + 1, priority, t, thr))

Unregister(id, thr) ==
  /\ Returned("unregister", id, UnregisterOp(activeContexts, id, thr))
  /\ UNCHANGED <<now, regs>>

UpdatePriority(id, priority) ==
  /\ Returned("updatePriority", id,
              UpdatePriorityOp(activeContexts, id, priority))
  /\ UNCHANGED <<now, regs>>

Cleanup(k) ==
  /\ Returned("cleanup", Null, CleanupOp(activeContexts, k))
  /\ UNCHANGED <<now, regs>>

\* The browser dispatches 'beforeunload'.  The page may stay (another listener
\* can cancel the navigation), so calls can follow.
BeforeUnload(k) ==
  /\ Returned("beforeunload", Null, BeforeUnloadHandler(activeContexts, k))
  /\ UNCHANGED <<now, regs>>

\* The calls of callers other than the components below.  Every cleanup
\* action returns normally.
Next ==
  \/ \E id \in Ids, p \in Priorities, t \in {now, now + 1} :
       Register(id, p, t, FALSE) /\ UNCHANGED <<viewers, browser, page>>
  \/ \E id \in Ids : Unregister(id, FALSE) /\ UNCHANGED <<viewers, browser, page>>
  \/ \E id \in Ids, p \in Priorities : UpdatePriority(id, p) /\ UNCHANGED <<viewers, browser, page>>
  \/ Cleanup(0) /\ UNCHANGED <<viewers, browser, page>>
  \/ BeforeUnload(0) /\ UNCHANGED <<viewers, browser, page>>

Spec == Init /\ [][Next]_vars

\* Cleanup actions that may throw.  The owners registered under FaultyId
\* have a cleanup action that can throw, at most MaxThrows times each, which
\* bounds the invocation counts; a throwing cleanup action is the last one a
\* call invokes.
FaultyId == "a"

Within(out) ==
  out.threw => LET o == out.invoked[Len(out.invoked)]
               IN  o.id = FaultyId /\ calls[o.cleanup] < MaxThrows

\* The priorities the owners register with: the default for the owners whose
\* cleanup action returns, either priority for the faulty one.
ThrowPriorities(id) == IF id = FaultyId THEN Priorities ELSE {ViewerPriority}

\* The calls that invoke cleanup actions.  The clock advances between two
\* register calls.
NextThrow ==
  \/ \E id \in Ids : \E p \in ThrowPriorities(id), t \in {now + 1}, thr \in BOOLEAN :
       /\ Within(RegisterOp(activeContexts, id, regs + 1, p, t, thr))
       /\ Register(id, p, t, thr)
       /\ UNCHANGED <<viewers, browser, page>>
  \/ \E id \in Ids, thr \in BOOLEAN :
       /\ Within(UnregisterOp(activeContexts, id, thr))
       /\ Unregister(id, thr)
       /\ UNCHANGED <<viewers, browser, page>>
  \/ \E k \in 0..MapSize(activeContexts) :
       /\ Within(CleanupOp(activeContexts, k))
       /\ Cleanup(k)
       /\ UNCHANGED <<viewers, browser, page>>

SpecThrow == Init /\ [][NextThrow]_vars

\* removeLowestPriority as a function of the registry, and the two steps of
\* register around it.  The registries it is applied to: up to MAX_CONTEXTS
\* owners with distinct ids, the i-th registered by the i-th register call.
RECURSIVE Registries(_)
Registries(n) ==
  IF n = 0
    THEN {<<>>}
    ELSE {Append(m, ContextOwner(id, p, n, t)) :
            m \in Registries(n - 1), id \in Ids, p \in Priorities, t \in 0..MaxClock}

InitEvict ==
  /\ activeContexts \in
       {m \in UNION {Registries(n) : n \in 0..MAX_CONTEXTS} :
          Cardinality(MapKeys(m)) = Len(m)}
  /\ now = MaxClock
  /\ regs = Len(activeContexts)
  /\ calls = [c \in Cleanups |-> 0]
  /\ last = NoCall
  /\ viewers = [v \in ViewerIds |-> NewComponent]
  /\ browser = NewBrowser
  /\ page = NewPage

\* `this.removeLowestPriority()`, the first step of a register call.
EvictStep ==
  /\ last.op # "removeLowestPriority"
  /\ Returned("removeLowestPriority", Null, RemoveLowestPriority(activeContexts, FALSE))
  /\ UNCHANGED <<now, regs, viewers, browser, page>>

\* `this.activeContexts.set(id, {...})`, the second step of a register call,
\* taken when the first has returned.
InsertStep(id, priority, t) ==
  /\ last.op = "removeLowestPriority"
  /\ ~last.threw
  /\ regs < MaxRegs
  /\ regs' = regs + 1
  /\ now' = t
  /\ Returned("register", id,
              Outcome(MapSet(activeContexts, id, ContextOwner(id, priority, regs + 1, t)),
                      <<>>, FALSE))
  /\ UNCHANGED <<viewers, browser, page>>

NextEvict ==
  \/ EvictStep
  \/ \E id \in Ids, p \in Priorities, t \in {now, now + 1} : InsertStep(id, p, t)

SpecEvict == InitEvict /\ [][NextEvict]_vars

\* --------------------------------------------------------- PanoramaViewer

\* The `priority` prop: the preview panel passes 0 to its viewer, the other
\* components leave the default 1.
PriorityOf(v) == IF v = "a" THEN PreviewPriority ELSE ViewerPriority

\* viewer.destroy() on the viewer instance the component constructed last.
Destroy(c) ==
  [c EXCEPT !.destroys = @ + 1,
            !.alive = IF c.destroys = 0 THEN @ - 1 ELSE @]

\* cleanupFn, the closure a component passes to register: it clears the
\* loading timeout and, when viewerRef holds a viewer, destroys it (errors
\* caught) and sets viewerRef to null.
CleanupFn(c) ==
  IF c.viewerRef
    THEN [Destroy(c) EXCEPT !.loadingTimeout = FALSE,
                            !.viewerRef = FALSE,
                            !.phase = "destroyed"]
    ELSE [c EXCEPT !.loadingTimeout = FALSE]

\* The components after the registry has invoked the cleanup actions of the
\* owners in `invoked`.
ApplyCleanups(vs, invoked) ==
  [v \in ViewerIds |->
     IF \E i \in 1..Len(invoked) : invoked[i].id = v THEN CleanupFn(vs[v]) ELSE vs[v]]

\* An effect body that starts an initialization whenever the component is
\* visible, whether or not it holds a viewer or is initializing.
EffectBody_NoGuard(c, isVisible) ==
  IF ~isVisible \/ c.container # "attached"
    THEN [c EXCEPT !.cleanupInstalled = FALSE]
    ELSE [c EXCEPT !.cleanupInstalled = TRUE,
                   !.isInitializingRef = TRUE,
                   !.isMounted = TRUE,
                   !.phase = "loading"]

\* The body of the initialization effect.  It returns without a cleanup
\* function when the component is not visible, holds a viewer or is
\* initializing; otherwise it starts the initialization.
EffectBody(c, isVisible) ==
  IF ~isVisible \/ c.container # "attached" \/ c.viewerRef \/ c.isInitializingRef
    THEN [c EXCEPT !.cleanupInstalled = FALSE]
    ELSE [c EXCEPT !.cleanupInstalled = TRUE,
                   !.isInitializingRef = TRUE,
                   !.isMounted = TRUE,
                   !.phase = "loading"]

\* Whether the cleanup function of the effect gets past its first statement,
\* `if (isInitializingRef.current) return`.
CleansUp(c) == c.cleanupInstalled /\ ~c.isInitializingRef

\* The part of the effect cleanup before the unregister call.
BeforeUnregister(c) ==
  [c EXCEPT !.isMounted = FALSE, !.registered = FALSE, !.torn = TRUE]

\* The part of the effect cleanup after the unregister call: the renderer
\* of a viewer that viewerRef still holds is disposed, destroy() is invoked
\* on it when containerRef still holds the container (at unmount React has
\* cleared it), and viewerRef is set to null.
AfterUnregister(c, unmount) ==
  IF c.viewerRef
    THEN [(IF unmount THEN c ELSE Destroy(c)) EXCEPT !.viewerRef = FALSE,
                                                     !.phase = "destroyed"]
    ELSE c

NoManagerCall == UNCHANGED <<activeContexts, now, regs, calls, last>>

\* What follows the cleanup of the effect: at unmount React clears
\* containerRef, on a change of the dependencies the body runs again.
AfterTeardown(c, unmount, isVisible) ==
  IF unmount
    THEN [c EXCEPT !.container = "removed"]
    ELSE EffectBody(c, isVisible)

\* React tears the effect of component v down: its dependencies changed, or
\* the component unmounts.
Teardown(v, unmount, isVisible) ==
  IF CleansUp(viewers[v])
    THEN LET out == UnregisterOp(activeContexts, v, FALSE)
             vs  == ApplyCleanups([viewers EXCEPT ![v] = BeforeUnregister(@)],
                                  out.invoked)
         IN  /\ Unregister(v, FALSE)
             /\ viewers' = [vs EXCEPT ![v] =
                              AfterTeardown(AfterUnregister(@, unmount), unmount, isVisible)]
    ELSE /\ NoManagerCall
         /\ viewers' = [viewers EXCEPT ![v] =
                          AfterTeardown([@ EXCEPT !.torn = TRUE], unmount, isVisible)]

\* The component is mounted and its effect runs for the first time.
Mount(v, isVisible) ==
  /\ viewers[v].container = "new"
  /\ viewers' = [viewers EXCEPT
                   ![v] = EffectBody([@ EXCEPT !.container = "attached"], isVisible)]
  /\ NoManagerCall

\* imageSrc, isVisible, initialPitch or initialYaw changed: the cleanup of the
\* previous run, then the body again.
Rerun(v, isVisible) ==
  /\ viewers[v].container = "attached"
  /\ Teardown(v, FALSE, isVisible)

\* The component unmounts: the cleanup of the last run.
Unmount(v) ==
  /\ viewers[v].container = "attached"
  /\ Teardown(v, TRUE, FALSE)

\* The initialization ends before a viewer is constructed: the image does
\* not exist, the module does not load, the container is gone, or the
\* constructor throws.  isInitializingRef stays as it is.
Abort(v) ==
  /\ viewers[v].phase = "loading"
  /\ viewers' = [viewers EXCEPT ![v].phase = "aborted"]
  /\ NoManagerCall

\* The viewer is constructed: viewerRef is set, the component registers
\* with the registry, and the 10-second loading timeout is started.
Construct(v, t) ==
  /\ viewers[v].phase = "loading"
  /\ viewers[v].isMounted
  /\ viewers[v].container = "attached"
  /\ LET out == RegisterOp(activeContexts, v, regs + 1, PriorityOf(v), t, FALSE)
         vs  == ApplyCleanups([viewers EXCEPT ![v].viewerRef = TRUE,
                                              ![v].phase = "waiting",
                                              ![v].destroys = 0,
                                              ![v].alive = @ + 1],
                              out.invoked)
     IN  /\ Register(v, PriorityOf(v), t, FALSE)
         /\ viewers' = [vs EXCEPT ![v].loadingTimeout = TRUE,
                                  ![v].registered = TRUE,
                                  ![v].torn = FALSE]

\* The viewer reports 'ready'.  When the component is no longer mounted the
\* listener destroys the viewer it closes over and returns; viewerRef is
\* left as it is.
Ready(v) ==
  /\ viewers[v].phase = "waiting"
  /\ viewers' = [viewers EXCEPT ![v] =
       IF ~@.isMounted \/ @.container # "attached"
         THEN [Destroy(@) EXCEPT !.loadingTimeout = FALSE, !.phase = "orphan"]
         ELSE [@ EXCEPT !.loadingTimeout = FALSE,
                        !.isInitializingRef = FALSE,
                        !.phase = "ready"]]
  /\ NoManagerCall

\* The viewer reports 'panorama-load-error': it is destroyed and viewerRef
\* set to null.
LoadError(v) ==
  /\ viewers[v].phase = "waiting"
  /\ viewers' = [viewers EXCEPT ![v] =
       IF @.viewerRef
         THEN [Destroy(@) EXCEPT !.loadingTimeout = FALSE, !.viewerRef = FALSE,
                                 !.phase = "error"]
         ELSE [@ EXCEPT !.loadingTimeout = FALSE, !.phase = "error"]]
  /\ NoManagerCall

\* The viewer reports 'error'.
ViewerError(v) ==
  /\ viewers[v].phase = "waiting"
  /\ viewers' = [viewers EXCEPT ![v].loadingTimeout = FALSE,
                                ![v].phase = "viewerError"]
  /\ NoManagerCall

\* The loading timeout fires: the viewer is destroyed and viewerRef set to
\* null.
LoadingTimeout(v) ==
  /\ viewers[v].loadingTimeout
  /\ viewers' = [viewers EXCEPT ![v] =
       IF @.viewerRef
         THEN [Destroy(@) EXCEPT !.loadingTimeout = FALSE, !.viewerRef = FALSE,
                                 !.phase = "timeout"]
         ELSE [@ EXCEPT !.loadingTimeout = FALSE]]
  /\ NoManagerCall

\* A context owner of the page that is not one of the components followed
\* here registers; at capacity the registry evicts an owner, which may be
\* the viewer of a component.  In NextViewer it is another PanoramaViewer
\* with the default priority that registers within the clock reading of the
\* registration before it, while a construction, which follows the loading
\* of the image and of the viewer module, reads a later time.
RegisterOther(id, priority, t) ==
  /\ id \notin ViewerIds
  /\ Register(id, priority, t, FALSE)
  /\ viewers' = ApplyCleanups(viewers,
                   RegisterOp(activeContexts, id, regs + 1, priority, t, FALSE).invoked)

\* The page unloads: the beforeunload listener drains the registry.
PageUnload ==
  /\ BeforeUnload(0)
  /\ viewers' = ApplyCleanups(viewers, BeforeUnloadHandler(activeContexts, 0).invoked)

\* The viewers leave the login gate and the instance browser alone.
Elsewhere == UNCHANGED <<browser, page>>

NextViewer ==
  \/ \E v \in ViewerIds, isVisible \in BOOLEAN : Mount(v, isVisible) /\ Elsewhere
  \/ \E v \in ViewerIds, isVisible \in BOOLEAN : Rerun(v, isVisible) /\ Elsewhere
  \/ \E v \in ViewerIds : Unmount(v) /\ Elsewhere
  \/ \E v \in ViewerIds : Abort(v) /\ Elsewhere
  \/ \E v \in ViewerIds : Construct(v, now + 1) /\ Elsewhere
  \/ \E v \in ViewerIds : Ready(v) /\ Elsewhere
  \/ \E v \in ViewerIds : LoadError(v) /\ Elsewhere
  \/ \E v \in ViewerIds : ViewerError(v) /\ Elsewhere
  \/ \E v \in ViewerIds : LoadingTimeout(v) /\ Elsewhere
  \/ \E id \in Ids \ ViewerIds :
       RegisterOther(id, ViewerPriority, now) /\ Elsewhere
  \/ PageUnload /\ Elsewhere

SpecViewer == Init /\ [][NextViewer]_vars

\* ------------------------------------------------------------- login gate

\* The password LoginPage.handleSubmit compares with.
Password == "plyo-2026"

\* What the user can type into the password field.
Passwords == {"", "plyo-2026", "plyo-2025", "Plyo-2026", "PLYO-2026", " plyo-2026"}

\* The path prefix of the GitHub Pages deployment.
BasePath == <<"explore-instances-sales">>

\* getBasePath(): window.location.pathname.startsWith('/explore-instances-sales')
getBasePath(pathname) ==
  IF Len(pathname) >= 1 /\ pathname[1] = BasePath[1] THEN BasePath ELSE <<>>

\* window.location.pathname.includes('/login'), for a pathname whose
\* segments are whole names.
IncludesLogin(pathname) == \E i \in 1..Len(pathname) : pathname[i] = "login"

\* The documents a visitor can open or the build can render.  The layout
\* provides for a pathname that contains '/login' itself.
Routes ==
  UNION {{ [pathname |-> b, component |-> "Home"],
           [pathname |-> b \o <<"login">>, component |-> "LoginPage"],
           [pathname |-> b \o <<"instances">>, component |-> "InstancesLayout"],
           [pathname |-> b \o <<"login">>, component |-> "InstancesLayout"] } :
         b \in {<<>>, BasePath}}

\* window.location.replace(url): the browser loads the document at url.
Replace(b, pathname, component) ==
  [Document(b.window, b.flag, pathname, component) EXCEPT
     !.submitted = b.submitted, !.redirectedBy = b.component]

\* The effect of Home.
HomeEffectOp(b) ==
  IF b.flag = "true"
    THEN Replace(b, getBasePath(b.pathname) \o <<"instances">>, "InstancesLayout")
    ELSE Replace(b, getBasePath(b.pathname) \o <<"login">>, "LoginPage")

\* The mount effect of LoginPage.
LoginEffectOp(b) ==
  IF b.window /\ b.flag = "true"
    THEN Replace(b, getBasePath(b.pathname) \o <<"instances">>, "InstancesLayout")
    ELSE [b EXCEPT !.effectRan = TRUE]

\* LoginPage.handleSubmit
HandleSubmitOp(b) ==
  IF b.password = Password
    THEN Replace([b EXCEPT !.flag = IF b.window THEN "true" ELSE b.flag,
                           !.submitted = "accepted"],
                 getBasePath(b.pathname) \o <<"instances">>, "InstancesLayout")
    ELSE [b EXCEPT !.error = "Invalid password", !.loading = FALSE,
                   !.submitted = "rejected"]

\* A layout effect that lets every visitor in.
LayoutEffectOp_Open(b) ==
  [b EXCEPT !.authenticated = TRUE, !.effectRan = TRUE]

\* The mount effect of InstancesLayout.
LayoutEffectOp(b) ==
  IF ~b.window THEN b
  ELSE IF b.flag # "true" /\ ~IncludesLogin(b.pathname)
    THEN Replace(b, getBasePath(b.pathname) \o <<"login">>, "LoginPage")
    ELSE [b EXCEPT !.authenticated = TRUE, !.effectRan = TRUE]

\* Whether InstancesLayout returns its children (TRUE) or null.
LayoutRenders(b) ==
  ~(~b.authenticated /\ b.window /\ ~IncludesLogin(b.pathname))

NoOtherChange ==
  UNCHANGED <<activeContexts, now, regs, calls, last, viewers, page>>

\* The visitor opens a URL.
Open(route) ==
  /\ browser.window
  /\ browser' = Document(TRUE, browser.flag, route.pathname, route.component)
  /\ NoOtherChange

HomeEffect ==
  /\ browser.window
  /\ browser.component = "Home"
  /\ browser' = HomeEffectOp(browser)
  /\ NoOtherChange

LoginEffect ==
  /\ browser.window
  /\ browser.component = "LoginPage"
  /\ ~browser.effectRan
  /\ browser' = LoginEffectOp(browser)
  /\ NoOtherChange

\* The visitor types into the password field.
SetPassword(pw) ==
  /\ browser.window
  /\ browser.component = "LoginPage"
  /\ browser.effectRan
  /\ browser' = [browser EXCEPT !.password = pw]
  /\ NoOtherChange

\* The visitor submits the login form.
HandleSubmit ==
  /\ browser.window
  /\ browser.component = "LoginPage"
  /\ browser.effectRan
  /\ browser' = HandleSubmitOp(browser)
  /\ NoOtherChange

LayoutEffect ==
  /\ browser.window
  /\ browser.component = "InstancesLayout"
  /\ ~browser.effectRan
  /\ browser' = LayoutEffectOp(browser)
  /\ NoOtherChange

\* A document in the browser of a visitor, with or without the flag of an
\* earlier visit, or a render of a page on the server.
InitLogin ==
  /\ activeContexts = <<>>
  /\ now = 0
  /\ regs = 0
  /\ calls = [c \in Cleanups |-> 0]
  /\ last = NoCall
  /\ viewers = [v \in ViewerIds |-> NewComponent]
  /\ page = NewPage
  /\ \E r \in Routes :
       \/ \E flag \in {Null, "true"} :
            browser = Document(TRUE, flag, r.pathname, r.component)
       \/ browser = Document(FALSE, Null, r.pathname, r.component)

NextLogin ==
  \/ \E r \in Routes : Open(r)
  \/ HomeEffect
  \/ LoginEffect
  \/ \E pw \in Passwords : SetPassword(pw)
  \/ HandleSubmit
  \/ LayoutEffect

SpecLogin == InitLogin /\ [][NextLogin]_vars

\* ---------------------------------------------------------- InstancesPage

\* String.prototype.toLowerCase over the alphabet of the model, whose only
\* upper-case letter is "A".
ToLowerCase(s) == [i \in 1..Len(s) |-> IF s[i] = "A" THEN "a" ELSE s[i]]

RECURSIVE TrimStart(_)
TrimStart(s) == IF s # <<>> /\ Head(s) = " " THEN TrimStart(Tail(s)) ELSE s

RECURSIVE TrimEnd(_)
TrimEnd(s) ==
  IF s # <<>> /\ s[Len(s)] = " " THEN TrimEnd(SubSeq(s, 1, Len(s) - 1)) ELSE s

\* String.prototype.trim
Trim(s) == TrimEnd(TrimStart(s))

\* String.prototype.includes: q occurs in s as a substring.
Includes(s, q) ==
  \E i \in 0..(Len(s) - Len(q)) : SubSeq(s, i + 1, i + Len(q)) = q

\* What the user can type into the search box.
QueryChars == {"a", "A", " "}

Queries == UNION {[1..n -> QueryChars] : n \in 0..MaxQuery}

InstanceTypes == {"Showroom", "Unit Finder"}

Features == {"f", "g"}

\* interface ShowcaseInstance, the fields the filter effect reads.
ShowcaseInstance(id, uuid, name, client, type, features) ==
  [id |-> id, uuid |-> uuid, name |-> name, client |-> client, type |-> type,
   features |-> features]

\* The instances metadata.json can list: one that a search for "a" finds by
\* its name, one by its client, one by its id and one by its uuid.
Catalogue ==
  << ShowcaseInstance(<<"b">>, <<"b", "b">>, <<"A", "b">>, <<"b">>,
                      "Showroom", {"f"}),
     ShowcaseInstance(<<"l">>, <<"l", "b">>, <<"b">>, <<"A", " ", "a">>,
                      "Unit Finder", {"f", "g"}),
     ShowcaseInstance(<<"a", "a">>, <<"l", "l">>, <<"b", " ", "b">>, <<"b">>,
                      "Showroom", {}),
     ShowcaseInstance(<<"b", "l">>, <<"b", "A">>, <<"l">>, <<"l">>,
                      "Unit Finder", {"g"}) >>

\* The lists metadata.json can hold: no instance twice.
InstanceLists ==
  {[i \in 1..Len(l) |-> Catalogue[l[i]]] :
     l \in {l \in UNION {[1..n -> 1..Len(Catalogue)] : n \in 0..MaxInstances} :
              \A i, j \in 1..Len(l) : l[i] = l[j] => i = j}}

\* The values the client select offers: 'all' and the clients of the list.
ClientFilters == {All, <<"b">>}

\* A search that looks at the name only.
MatchesSearch_NameOnly(instance, query) ==
  Includes(ToLowerCase(instance.name), query)

\* The predicate of the search filter.
MatchesSearch(instance, query) ==
  \/ Includes(ToLowerCase(instance.name), query)
  \/ Includes(ToLowerCase(instance.client), query)
  \/ Includes(ToLowerCase(instance.id), query)
  \/ Includes(ToLowerCase(instance.uuid), query)

\* The body of the filter effect: the value it passes to
\* setFilteredInstances.
Filter(p) ==
  LET ofType(i)     == i.type = p.typeFilter
      ofClient(i)   == i.client = p.clientFilter
      hasEvery(i)   == \A f \in p.includedFeatures : f \in i.features
      hasNone(i)    == ~\E f \in p.excludedFeatures : f \in i.features
      query         == Trim(ToLowerCase(p.debouncedSearchQuery))
      found(i)      == MatchesSearch(i, query)
      all           == p.instances
      byType        == IF p.typeFilter # "all" THEN SelectSeq(all, ofType) ELSE all
      byClient      == IF p.clientFilter # All
                         THEN SelectSeq(byType, ofClient) ELSE byType
      byIncluded    == IF p.includedFeatures # {}
                         THEN SelectSeq(byClient, hasEvery) ELSE byClient
      byExcluded    == IF p.excludedFeatures # {}
                         THEN SelectSeq(byIncluded, hasNone) ELSE byIncluded
  IN  IF Trim(p.debouncedSearchQuery) # <<>>
        THEN SelectSeq(byExcluded, found)
        ELSE byExcluded

\* The filter effect runs: a dependency has changed since the last render.
FilterEffect ==
  /\ page.stale
  /\ page' = [page EXCEPT !.filteredInstances = Filter(page), !.stale = FALSE]
  /\ UNCHANGED <<activeContexts, now, regs, calls, last, viewers, browser>>

\* The 500 ms debounce timer fires.
DebounceTimer ==
  /\ page.debouncedSearchQuery # page.searchQuery
  /\ page' = [page EXCEPT !.debouncedSearchQuery = page.searchQuery,
                          !.stale = TRUE]
  /\ UNCHANGED <<activeContexts, now, regs, calls, last, viewers, browser>>

\* The user clicks "Clear Filters", which is shown while a filter is set.
ClearFilters ==
  /\ \/ page.typeFilter # "all"
     \/ page.clientFilter # All
     \/ page.includedFeatures # {}
     \/ page.excludedFeatures # {}
     \/ page.searchQuery # <<>>
  /\ ~page.stale
  /\ page' = [page EXCEPT !.typeFilter = "all", !.clientFilter = All,
                          !.includedFeatures = {}, !.excludedFeatures = {},
                          !.searchQuery = <<>>,
                          !.stale = \/ page.typeFilter # "all"
                                    \/ page.clientFilter # All
                                    \/ page.includedFeatures # {}
                                    \/ page.excludedFeatures # {}]
  /\ UNCHANGED <<activeContexts, now, regs, calls, last, viewers, browser>>

\* The page after metadata.json has loaded, the user has set the filters
\* (the filter effect has run after each change) and has just typed a
\* search text: the debounce timer is pending.
InitFilter ==
  /\ activeContexts = <<>>
  /\ now = 0
  /\ regs = 0
  /\ calls = [c \in Cleanups |-> 0]
  /\ last = NoCall
  /\ viewers = [v \in ViewerIds |-> NewComponent]
  /\ browser = NewBrowser
  /\ \E l \in InstanceLists, t \in InstanceTypes \cup {"all"}, c \in ClientFilters,
        inc \in SUBSET Features, exc \in SUBSET Features, q \in Queries :
       LET p == [NewPage EXCEPT !.instances = l, !.typeFilter = t,
                                !.clientFilter = c, !.includedFeatures = inc,
                                !.excludedFeatures = exc, !.searchQuery = q]
       IN  page = [p EXCEPT !.filteredInstances = Filter(p), !.stale = FALSE]

NextFilter ==
  \/ FilterEffect
  \/ DebounceTimer
  \/ ClearFilters

SpecFilter == InitFilter /\ [][NextFilter]_vars

\* ------------------------------------------------ vocabulary of the claims

\* The ids, priorities and clock readings a call can be made with in the
\* current state, and the closure the next register call passes.
NewIds == Ids \ MapKeys(activeContexts)

KnownIds == MapKeys(activeContexts)

Readings == {now, now + 1}

NextCleanup == regs + 1

\* The owners of registry m that are no longer in registry r.  An owner is
\* identified by its cleanup closure: every register call passes a fresh one.
Gone(m, r) ==
  {o \in MapValues(m) : \A q \in MapValues(r) : q.cleanup # o.cleanup}

\* How often owner o occurs in the sequence of invoked cleanup actions.
Times(invoked, o) ==
  Cardinality({i \in 1..Len(invoked) : invoked[i].cleanup = o.cleanup})

\* The state a register call with a new id leaves after evicting one owner.
AfterEviction ==
  /\ last.op = "register"
  /\ ~last.present
  /\ ~last.threw
  /\ last.n = 1
  /\ MapSize(activeContexts) = MAX_CONTEXTS

\* A call on registry m with outcome out has invoked the cleanup action of
\* no owner twice, and only of owners it has removed.
OncePerRemoved(m, out) ==
  \A o \in MapValues(m) :
    /\ Times(out.invoked, o) <= 1
    /\ Times(out.invoked, o) = 1 => o \in Gone(m, out.reg)

\* The positions (in insertion order) of the owners that the eviction step
\* removes from registry m.
EvictedPositions(m) ==
  LET ev == RemoveLowestPriority(m, FALSE)
  IN  {j \in 1..Len(m) : \E k \in 1..Len(ev.invoked) : ev.invoked[k].cleanup = m[j].cleanup}

\* Owner o of registry m comes first in the eviction order: it has the
\* lowest priority, among the owners of that priority the earliest
\* createdAt, and among those the earliest position in the Map.
FirstInOrder(m, o) ==
  \A q \in MapValues(m) \ {o} :
    \/ o.priority < q.priority
    \/ o.priority = q.priority /\ o.createdAt < q.createdAt
    \/ /\ o.priority = q.priority
       /\ o.createdAt = q.createdAt
       /\ MapIndex(m, o.id) < MapIndex(m, q.id)

\* The owner the last register call inserted.
Newest(o) == o.cleanup = regs

\* ---------------------------------------------------------------- claims

\* C1: after each register call returns, the number of registered owners is
\* at most MAX_CONTEXTS, whatever ids (any string) the callers use.
C1_CapacityInvariant ==
  last.op = "register" => MapSize(activeContexts) <= MAX_CONTEXTS

\* C2: when register is called with a new id while the registry is at
\* capacity, every owner the call removes has a priority less than or equal
\* to the priority of every owner present before the call.
C2_EvictsLowestPriority ==
  MapSize(activeContexts) >= MAX_CONTEXTS =>
    \A id \in NewIds, p \in Priorities, t \in Readings :
      LET out == RegisterOp(activeContexts, id, NextCleanup, p, t, FALSE)
      IN  \A o \in Gone(activeContexts, out.reg) :
            \A q \in MapValues(activeContexts) : o.priority <= q.priority

\* C2 witness: a register call with a new id at capacity has evicted one
\* owner and kept an owner of a strictly higher priority.
C2_Witness ==
  /\ AfterEviction
  /\ \E q \in MapValues(activeContexts) :
       ~Newest(q) /\ q.priority > last.evicted[1].priority

\* C3: among the owners that share the priority of the evicted owner, the
\* evicted one has the smallest createdAt; no owner of the same priority and
\* an earlier createdAt is left in the registry in its place.
C3_TieBreakOldest ==
  MapSize(activeContexts) >= MAX_CONTEXTS =>
    \A id \in NewIds, p \in Priorities, t \in Readings :
      LET out == RegisterOp(activeContexts, id, NextCleanup, p, t, FALSE)
      IN  \A o \in Gone(activeContexts, out.reg) :
            \A q \in MapValues(activeContexts) :
              q.priority = o.priority => o.createdAt <= q.createdAt

\* C3 witness: a register call has evicted one of two owners that tied on
\* the lowest priority, and the survivor has the later createdAt.
C3_Witness ==
  /\ AfterEviction
  /\ \E q \in MapValues(activeContexts) :
       /\ ~Newest(q)
       /\ q.priority = last.evicted[1].priority
       /\ q.createdAt > last.evicted[1].createdAt

\* C4: a register call with a new id at exactly MAX_CONTEXTS owners removes
\* exactly one owner, inserts the new one and leaves the size at MAX_CONTEXTS
\* with every other owner present and unmodified; below MAX_CONTEXTS it
\* removes no owner and invokes no cleanup.
C4_SingleEviction ==
  \A id \in NewIds, p \in Priorities, t \in Readings :
    LET out == RegisterOp(activeContexts, id, NextCleanup, p, t, FALSE)
        new == ContextOwner(id, p, NextCleanup, t)
    IN  /\ MapSize(activeContexts) = MAX_CONTEXTS =>
             /\ Cardinality(Gone(activeContexts, out.reg)) = 1
             /\ Len(out.invoked) = 1
             /\ new \in MapValues(out.reg)
             /\ MapSize(out.reg) = MAX_CONTEXTS
             /\ MapValues(out.reg) \ {new} \subseteq MapValues(activeContexts)
        /\ MapSize(activeContexts) < MAX_CONTEXTS =>
             /\ Gone(activeContexts, out.reg) = {}
             /\ out.invoked = <<>>

\* C5: every owner that has left the registry has had its cleanup action
\* invoked exactly once, and an owner that is still registered has had it
\* invoked zero times.
C5_CleanupExactlyOnce ==
  \A c \in 1..regs :
    IF \E o \in MapValues(activeContexts) : o.cleanup = c
      THEN calls[c] = 0
      ELSE calls[c] = 1

\* C6: unregister of an absent id invokes no cleanup, changes no entry and
\* does not fail; unregister of a registered id invokes that owner's cleanup
\* once and removes it, and a second unregister of the same id invokes
\* nothing and leaves the registry of the first call.
C6_UnregisterIdempotent ==
  \A id \in Ids :
    LET first  == UnregisterOp(activeContexts, id, FALSE)
        second == UnregisterOp(first.reg, id, FALSE)
    IN  /\ ~MapHas(activeContexts, id) =>
             first = Outcome(activeContexts, <<>>, FALSE)
        /\ MapHas(activeContexts, id) =>
             /\ first.invoked = <<MapGet(activeContexts, id)>>
             /\ Gone(activeContexts, first.reg) = {MapGet(activeContexts, id)}
             /\ second = Outcome(first.reg, <<>>, FALSE)

\* C6 witness: unregister has been called with an id that is not registered
\* while other owners are, and has invoked nothing.
C6_Witness ==
  /\ last.op = "unregister"
  /\ ~last.present
  /\ last.n = 0
  /\ ~last.threw
  /\ MapSize(activeContexts) >= 2

\* C7: after cleanup() returns the registry is empty, getContextCount() is 0
\* and the cleanup action of every owner registered at the call has been
\* invoked exactly once by it.
C7_DrainAll ==
  LET out == CleanupOp(activeContexts, 0)
  IN  /\ out.reg = <<>>
      /\ getContextCount(out.reg) = 0
      /\ ~out.threw
      /\ Len(out.invoked) = MapSize(activeContexts)
      /\ \A o \in MapValues(activeContexts) : Times(out.invoked, o) = 1

\* C7 witness: cleanup() has drained a registry at capacity.
C7_Witness ==
  /\ last.op = "cleanup"
  /\ last.n >= MAX_CONTEXTS
  /\ ~last.threw
  /\ activeContexts = <<>>

\* C8: updatePriority(id, p) on a registered id sets that owner's priority to
\* p and leaves its createdAt and cleanup, the registered ids and their
\* order, the size and every other owner unchanged, and invokes no cleanup;
\* on an unregistered id it changes nothing.
C8_UpdatePriorityFrame ==
  \A id \in Ids, p \in Priorities :
    LET out == UpdatePriorityOp(activeContexts, id, p)
    IN  /\ out.invoked = <<>>
        /\ ~out.threw
        /\ MapSize(out.reg) = MapSize(activeContexts)
        /\ \A i \in 1..MapSize(activeContexts) :
             IF activeContexts[i].id = id
               THEN out.reg[i] = [activeContexts[i] EXCEPT !.priority = p]
               ELSE out.reg[i] = activeContexts[i]

\* C8 witness: updatePriority has been called with a registered id while
\* another owner is registered too.
C8_Witness ==
  /\ last.op = "updatePriority"
  /\ last.present
  /\ last.n = 0
  /\ MapSize(activeContexts) >= 2

\* C9: a register call with an id that is already registered either invokes
\* the existing owner's cleanup and replaces the entry by the new owner, or
\* is rejected and leaves the existing owner registered unchanged.
C9_DuplicateIdPolicy ==
  \A id \in KnownIds, p \in Priorities, t \in Readings :
    LET out == RegisterOp(activeContexts, id, NextCleanup, p, t, FALSE)
        old == MapGet(activeContexts, id)
        new == ContextOwner(id, p, NextCleanup, t)
    IN  \/ /\ Times(out.invoked, old) = 1
           /\ MapHas(out.reg, id)
           /\ MapGet(out.reg, id) = new
        \/ /\ Times(out.invoked, old) = 0
           /\ MapHas(out.reg, id)
           /\ MapGet(out.reg, id) = old

\* C10: a register call whose cleanup actions return normally returns without
\* an error, whatever the registry and the incoming priority, and leaves id
\* registered with the given priority and cleanup.
C10_AdmissionNeverFails ==
  \A id \in Ids, p \in Priorities, t \in Readings :
    LET out == RegisterOp(activeContexts, id, NextCleanup, p, t, FALSE)
    IN  /\ ~out.threw
        /\ MapHas(out.reg, id)
        /\ MapGet(out.reg, id) = ContextOwner(id, p, NextCleanup, t)

\* C10 witness: a register call at capacity has admitted an owner whose
\* priority is strictly lower than that of every other owner.
C10_Witness ==
  /\ AfterEviction
  /\ \E o \in MapValues(activeContexts) :
       /\ Newest(o)
       /\ o.priority < last.evicted[1].priority
       /\ \A q \in MapValues(activeContexts) : ~Newest(q) => o.priority < q.priority

C13_TeardownDrain ==
  /\ LET out == BeforeUnloadHandler(activeContexts, 0)
     IN  /\ out.reg = <<>>
         /\ \A o \in MapValues(activeContexts) : Times(out.invoked, o) >= 1
  /\ last.op = "beforeunload" => activeContexts = <<>>

\* C13 witness: the beforeunload signal has been handled with the registry
\* at capacity, and the registry is empty.
C13_Witness ==
  /\ last.op = "beforeunload"
  /\ last.n >= MAX_CONTEXTS
  /\ ~last.threw
  /\ activeContexts = <<>>

\* C11: when the cleanup action invoked by unregister(id), by the eviction
\* inside register, or by cleanup() throws, the call ends with that error:
\* it throws exactly when it has invoked a cleanup action, the throwing
\* action is the last one it invokes, and cleanup() stops at it.
C11_CleanupFailuresPropagate ==
  /\ \A id \in Ids :
       LET out == UnregisterOp(activeContexts, id, TRUE)
       IN  out.threw <=> out.invoked # <<>>
  /\ \A id \in Ids, p \in Priorities, t \in Readings :
       LET out == RegisterOp(activeContexts, id, NextCleanup, p, t, TRUE)
       IN  out.threw <=> out.invoked # <<>>
  /\ \A k \in 1..MapSize(activeContexts) :
       LET out == CleanupOp(activeContexts, k)
       IN  /\ out.threw
           /\ out.invoked = SubSeq(activeContexts, 1, k)
  /\ last.threw => last.n >= 1

\* C11 witness: cleanup() has ended with the error of the second cleanup
\* action it invoked.
C11_Witness ==
  /\ last.op = "cleanup"
  /\ last.threw
  /\ last.n = 2

\* C16: unregister and the eviction of register invoke the cleanup action
\* while the owner is registered and delete the entry only after it has
\* returned: when it throws, the entry is still there.  The eviction equals
\* unregister called with the evicted owner's id, and register inserts the
\* incoming owner into the registry that unregister has left: when the
\* eviction throws, the incoming owner is not inserted.
C16_CleanupPrecedesRemoval ==
  /\ \A id \in KnownIds :
       LET out == UnregisterOp(activeContexts, id, TRUE)
       IN  /\ out.invoked = <<MapGet(activeContexts, id)>>
           /\ out.reg = activeContexts
  /\ \A thr \in BOOLEAN :
       LET ev == RemoveLowestPriority(activeContexts, thr)
       IN  /\ \A i \in 1..Len(ev.invoked) :
                ev = UnregisterOp(activeContexts, ev.invoked[i].id, thr)
           /\ MapSize(activeContexts) >= MAX_CONTEXTS =>
                \A id \in Ids, p \in Priorities, t \in Readings :
                  LET out == RegisterOp(activeContexts, id, NextCleanup, p, t, thr)
                      new == ContextOwner(id, p, NextCleanup, t)
                  IN  IF ev.threw
                        THEN out.reg = activeContexts /\ out.threw
                        ELSE /\ out.reg = MapSet(ev.reg, id, new)
                             /\ \A i \in 1..Len(ev.invoked) :
                                  ev.invoked[i] \notin MapValues(out.reg)

\* C16 witness: the cleanup action of the owner selected for eviction has
\* thrown inside a register call with a new id: the selected owner is still
\* registered and the incoming owner is not.
C16_Witness ==
  /\ last.op = "register"
  /\ last.threw
  /\ ~last.present
  /\ last.n = 1
  /\ last.evicted[1] \in MapValues(activeContexts)
  /\ \A o \in MapValues(activeContexts) : ~Newest(o)

\* C17: after updatePriority(id, p) the next eviction compares that owner by
\* p: an owner whose priority is now above another owner's is not evicted,
\* an owner whose priority is now below all others is the one evicted, and
\* its createdAt is still its registration time.
C17_EvictionUsesCurrentPriority ==
  MapSize(activeContexts) >= MAX_CONTEXTS =>
    \A id \in KnownIds, p \in Priorities :
      LET m   == UpdatePriorityOp(activeContexts, id, p).reg
          o   == MapGet(m, id)
          out == RemoveLowestPriority(m, FALSE)
      IN  /\ o.createdAt = MapGet(activeContexts, id).createdAt
          /\ (\E q \in MapValues(m) : q.priority < p) => o \notin Gone(m, out.reg)
          /\ (\A q \in MapValues(m) \ {o} : q.priority > p) => Gone(m, out.reg) = {o}

\* C18: removeLowestPriority on an empty registry invokes no cleanup action,
\* does not fail and leaves the registry empty, and the register call that
\* ran it then inserts the new owner into the empty registry.
C18_EvictEmptyNoOp ==
  /\ activeContexts = <<>> =>
       \A thr \in BOOLEAN :
         LET ev == RemoveLowestPriority(activeContexts, thr)
         IN  /\ ev = Outcome(<<>>, <<>>, FALSE)
             /\ \A id \in Ids, p \in Priorities, t \in Readings :
                  MapSet(ev.reg, id, ContextOwner(id, p, NextCleanup, t))
                    = <<ContextOwner(id, p, NextCleanup, t)>>
  /\ (last.op = "removeLowestPriority" /\ last.n = 0) => ~last.threw

\* C18 witness: removeLowestPriority has run on the empty registry.
C18_Witness ==
  /\ last.op = "removeLowestPriority"
  /\ regs = 0
  /\ last.n = 0
  /\ ~last.threw
  /\ activeContexts = <<>>

C20_EvictionDependsOnOrderOnly ==
  MapSize(activeContexts) >= MAX_CONTEXTS =>
    \A i \in 1..Len(activeContexts), id \in NewIds :
      EvictedPositions([activeContexts EXCEPT ![i].id = id])
        = EvictedPositions(activeContexts)

\* C14: a component that has registered its viewer id and is torn down
\* (unmounted, or its initialization effect re-run) has called unregister
\* for that id, whatever the state of its viewer.
C14_TeardownUnregisters ==
  \A v \in ViewerIds : ~(viewers[v].torn /\ viewers[v].registered)

\* C15: a component calls register only when its viewer reports 'ready':
\* every viewer id in the registry belongs to a component whose viewer has
\* reported 'ready'.
C15_RegisteredOnlyWhenReady ==
  \A v \in ViewerIds :
    MapHas(activeContexts, v) => viewers[v].phase = "ready"

\* C21: a register call with a new id at capacity, in which the owner that is
\* first in the eviction order has id "", evicts that owner, invokes its
\* cleanup action and leaves the size at MAX_CONTEXTS.
C21_EmptyIdEvictable ==
  (/\ MapSize(activeContexts) = MAX_CONTEXTS
   /\ MapHas(activeContexts, "")
   /\ FirstInOrder(activeContexts, MapGet(activeContexts, ""))) =>
    \A id \in NewIds, p \in Priorities, t \in Readings :
      LET out == RegisterOp(activeContexts, id, NextCleanup, p, t, FALSE)
      IN  /\ out.invoked = <<MapGet(activeContexts, "")>>
          /\ ~MapHas(out.reg, "")
          /\ MapSize(out.reg) = MAX_CONTEXTS

\* C22: a register call whose id is already registered removes no owner
\* registered under a different id and invokes no cleanup action of such an
\* owner, whatever the size of the registry.
C22_ReRegisterAffectsOnlyId ==
  \A id \in KnownIds, p \in Priorities, t \in Readings :
    LET out == RegisterOp(activeContexts, id, NextCleanup, p, t, FALSE)
    IN  /\ \A o \in Gone(activeContexts, out.reg) : o.id = id
        /\ \A i \in 1..Len(out.invoked) : out.invoked[i].id = id

\* C23: when several owners share the lowest priority and the same
\* createdAt, a register call with a new id at capacity removes exactly one
\* owner, the one of them that comes first in the Map.
C23_FullTieResolution ==
  MapSize(activeContexts) = MAX_CONTEXTS =>
    \A o \in MapValues(activeContexts) :
      (/\ FirstInOrder(activeContexts, o)
       /\ \E q \in MapValues(activeContexts) \ {o} :
            q.priority = o.priority /\ q.createdAt = o.createdAt) =>
        \A id \in NewIds, p \in Priorities, t \in Readings :
          Gone(activeContexts,
               RegisterOp(activeContexts, id, NextCleanup, p, t, FALSE).reg) = {o}

\* C24: when the cleanup action invoked by unregister(id) throws, the
\* registry after the call equals the registry before it, the owner with
\* its priority and createdAt included; when the cleanup action of the owner
\* selected for eviction throws inside register, no owner is removed and the
\* incoming owner is not inserted.
C24_UnchangedOnFailure ==
  /\ \A id \in Ids :
       LET out == UnregisterOp(activeContexts, id, TRUE)
       IN  out.threw => out.reg = activeContexts
  /\ \A id \in Ids, p \in Priorities, t \in Readings :
       LET out == RegisterOp(activeContexts, id, NextCleanup, p, t, TRUE)
       IN  out.threw =>
             /\ out.reg = activeContexts
             /\ Gone(activeContexts, out.reg) = {}
             /\ \A o \in MapValues(out.reg) : o.cleanup # NextCleanup
  /\ (last.threw /\ last.op \in {"register", "unregister"}) =>
       /\ last.n = 1
       /\ \E o \in MapValues(activeContexts) : calls[o.cleanup] >= 1

\* C24 witness: unregister has ended with the error of the cleanup action
\* of a registered owner, and that owner is still registered.
C24_Witness ==
  /\ last.op = "unregister"
  /\ last.threw
  /\ last.present
  /\ last.n = 1
  /\ \E o \in MapValues(activeContexts) : o.id = FaultyId /\ calls[o.cleanup] = 1

\* C25: when a cleanup action throws during cleanup(), no owner whose
\* cleanup action that call had already invoked and seen return is still
\* registered after the call.
C25_DrainInterrupted ==
  \A k \in 1..MapSize(activeContexts) :
    LET out == CleanupOp(activeContexts, k)
    IN  \A i \in 1..(k - 1) : activeContexts[i] \notin MapValues(out.reg)

\* C26: a viewer id that is registered belongs to a viewer instance that has
\* not been destroyed.
C26_EntriesTrackLiveViewers ==
  \A v \in ViewerIds :
    MapHas(activeContexts, v) => viewers[v].destroys = 0

\* C27: destroy() is invoked at most once on any one viewer instance.
C27_DestroyedAtMostOnce ==
  \A v \in ViewerIds : viewers[v].destroys <= 1

\* C28: a component never starts an initialization while it holds a viewer,
\* it has at most one viewer instance that is not destroyed, and the
\* registry holds at most one owner under its viewer id.
C28_OneViewerPerComponent ==
  \A v \in ViewerIds :
    /\ viewers[v].phase = "loading" =>
         /\ ~viewers[v].viewerRef
         /\ viewers[v].alive = 0
         /\ viewers[v].isInitializingRef
    /\ viewers[v].alive <= 1
    /\ viewers[v].viewerRef => viewers[v].alive = 1 \/ viewers[v].phase = "orphan"
    /\ Cardinality({i \in 1..Len(activeContexts) : activeContexts[i].id = v}) <= 1

\* C28 witness: a component whose first viewer was destroyed by a cleanup
\* action the registry invoked has been re-run, has constructed and
\* registered a second viewer, and holds that one viewer.
C28_Witness ==
  \E v \in ViewerIds :
    /\ viewers[v].phase = "ready"
    /\ viewers[v].alive = 1
    /\ MapHas(activeContexts, v)
    /\ MapGet(activeContexts, v).cleanup > 1
    /\ \E c \in Cleanups : calls[c] >= 1

\* The search text the filter effect looks for.
SearchText == Trim(ToLowerCase(page.debouncedSearchQuery))

\* Instance i passes the type, client and feature filters.
PassesSelects(i) ==
  /\ page.typeFilter # "all" => i.type = page.typeFilter
  /\ page.clientFilter # All => i.client = page.clientFilter
  /\ page.includedFeatures \subseteq i.features
  /\ page.excludedFeatures \cap i.features = {}

\* The sub-list of the instances whose positions are in `keep`, in their
\* original order.
RECURSIVE SubList(_, _)
SubList(l, keep) ==
  IF l = <<>> THEN <<>>
  ELSE LET rest == SubList(SubSeq(l, 1, Len(l) - 1), keep)
       IN  IF Len(l) \in keep THEN Append(rest, l[Len(l)]) ELSE rest

\* C30 as stated: once the filter effect has run, filteredInstances is the
\* sub-list of the instances that pass the type, client and feature filters
\* and whose name, client, id or uuid, as stored, contains the trimmed
\* lower-cased search text.
C30_FilteringAsStated ==
  ~page.stale =>
    page.filteredInstances =
      SubList(page.instances,
              {k \in 1..Len(page.instances) :
                 LET i == page.instances[k]
                 IN  /\ PassesSelects(i)
                     /\ SearchText # <<>> =>
                          \/ Includes(i.name, SearchText)
                          \/ Includes(i.client, SearchText)
                          \/ Includes(i.id, SearchText)
                          \/ Includes(i.uuid, SearchText)})

\* C30 amended: the same with the name, client, id and uuid lower-cased
\* before the search text is looked for in them; with no filter active the
\* result is the list of instances.
C30_FilteringCaseInsensitive ==
  ~page.stale =>
    /\ page.filteredInstances =
         SubList(page.instances,
                 {k \in 1..Len(page.instances) :
                    LET i == page.instances[k]
                    IN  /\ PassesSelects(i)
                        /\ SearchText # <<>> =>
                             \/ Includes(ToLowerCase(i.name), SearchText)
                             \/ Includes(ToLowerCase(i.client), SearchText)
                             \/ Includes(ToLowerCase(i.id), SearchText)
                             \/ Includes(ToLowerCase(i.uuid), SearchText)})
    /\ (/\ page.typeFilter = "all"
        /\ page.clientFilter = All
        /\ page.includedFeatures = {}
        /\ page.excludedFeatures = {}
        /\ SearchText = <<>>) => page.filteredInstances = page.instances

\* C30 witness: the effect has run with a type filter, an included feature
\* and a search text with an upper-case letter and a space around it; it
\* has kept the second of two instances and dropped the first.
C30_Witness ==
  /\ ~page.stale
  /\ page.typeFilter # "all"
  /\ page.includedFeatures # {}
  /\ page.debouncedSearchQuery = <<"A", " ">>
  /\ Len(page.instances) = 2
  /\ page.filteredInstances = <<page.instances[2]>>

\* The submission of the login form in the document the browser shows, with
\* password pw typed: the flag is written and the browser sent to /instances
\* only when pw is the password; with any other password the flag is as
\* before, the error is 'Invalid password' and the document stays.
SubmitGate(pw) ==
  LET out == HandleSubmitOp([browser EXCEPT !.password = pw])
  IN  /\ pw = Password =>
           /\ out.flag = "true"
           /\ out.pathname = getBasePath(browser.pathname) \o <<"instances">>
      /\ pw # Password =>
           /\ out.flag = browser.flag
           /\ out.error = "Invalid password"
           /\ out.pathname = browser.pathname
           /\ out.component = "LoginPage"

\* C29 as stated: the login form admits the password only, and the
\* instances layout renders its children only when the stored flag is
\* 'true'; otherwise its effect redirects to /login.
C29_LoginGateAsStated ==
  /\ (browser.window /\ browser.component = "LoginPage") =>
       \A pw \in Passwords : SubmitGate(pw)
  /\ browser.component = "InstancesLayout" =>
       /\ LayoutRenders(browser) => browser.flag = "true"
       /\ (browser.window /\ browser.flag # "true") =>
            LayoutEffectOp(browser).pathname =
              getBasePath(browser.pathname) \o <<"login">>

\* C29 amended: the same for the login form; the instances layout, rendered
\* in the browser at a pathname that does not contain '/login', renders its
\* children only when the stored flag is 'true', and otherwise its effect
\* redirects to /login.
C29_LoginGate ==
  /\ (browser.window /\ browser.component = "LoginPage") =>
       \A pw \in Passwords : SubmitGate(pw)
  /\ (/\ browser.component = "InstancesLayout"
      /\ browser.window
      /\ ~IncludesLogin(browser.pathname)) =>
       /\ LayoutRenders(browser) => browser.flag = "true"
       /\ browser.flag # "true" =>
            /\ LayoutEffectOp(browser).pathname =
                 getBasePath(browser.pathname) \o <<"login">>
            /\ LayoutEffectOp(browser).component = "LoginPage"
  /\ browser.submitted = "accepted" => browser.flag = "true"
  /\ browser.submitted = "rejected" =>
       /\ browser.error = "Invalid password"
       /\ browser.component = "LoginPage"

\* C29 witness: after an accepted submission the browser shows the instances layout, which renders its children.
C29_Witness ==
  /\ browser.submitted = "accepted"
  /\ browser.component = "InstancesLayout"
  /\ browser.pathname = BasePath \o <<"instances">>
  /\ browser.authenticated
  /\ LayoutRenders(browser)
  /\ browser.flag = "true"

====
